---- MODULE Spec2Model ----
(***************************************************************************)
(* BlogHub backend: the Blog model's pre-save pipeline (slug, reading      *)
(* time, publish date), the blog routes (create, update, delete, read,     *)
(* like, comment) and the token middleware that guards them.               *)
(*                                                                         *)
(* A request is a handler in flight: it occupies a slot of `req` from its  *)
(* first database read to its database write.  A handler is cut exactly at *)
(* the database calls it awaits, the places where Node's event loop can    *)
(* run another request.                                                    *)
(*                                                                         *)
(* Strings are sequences of one-character strings.                         *)
(***************************************************************************)
EXTENDS Integers, Sequences, FiniteSets, TLC

(***************************************************************************)
(* Bounds of the model.                                                    *)
(***************************************************************************)
MaxPosts == 2            \* documents ever created in one behaviour
MaxSeqPosts == 3         \* the same, in the creation-only specification
MaxInFlight == 2         \* request slots (handlers that can overlap)
MaxCalls == 2            \* API calls of the browser that can be in flight together
MaxNow == 2              \* readings of the clock
MaxViews == 2            \* cap of the view counter
MaxComments == 1         \* cap of a post's comment list

(***************************************************************************)
(* Characters.  The letters and digits the model's titles are written in,  *)
(* and the punctuation the pre-save hook asks slugify to remove.           *)
(***************************************************************************)
Digits == <<"0", "1", "2", "3", "4", "5", "6", "7", "8", "9">>

IsDigit(ch) == \E i \in 1..Len(Digits) : Digits[i] = ch

IsUpper(ch) == ch \in {"H", "W"}

IsLower(ch) == ch \in {"d", "e", "h", "i", "l", "o", "r", "w"}

IsSpace(ch) == ch = " "

\* \w of /[^A-Za-z0-9\s]/ without the underscore: what slugify's strict mode keeps
IsAlnum(ch) == IsDigit(ch) \/ IsUpper(ch) \/ IsLower(ch)

\* String.prototype.toLowerCase on one character
ToLowerCase(ch) ==
  CASE ch = "H" -> "h"
    [] ch = "W" -> "w"
    [] OTHER -> ch

\* remove: /[*+~.()'"!:@]/g
RemoveChars == {"*", "+", "~", ".", "(", ")", "'", "\"", "!", ":", "@"}

RECURSIVE TrimLeft(_)
TrimLeft(s) == IF s # << >> /\ IsSpace(Head(s)) THEN TrimLeft(Tail(s)) ELSE s

RECURSIVE TrimRight(_)
TrimRight(s) ==
  IF s # << >> /\ IsSpace(s[Len(s)]) THEN TrimRight(SubSeq(s, 1, Len(s) - 1)) ELSE s

\* String.prototype.trim
Trim(s) == TrimRight(TrimLeft(s))

\* slug.replace(/\s+/g, '-'): every maximal run of white space becomes one '-'
RECURSIVE ReplaceSpaces(_)
ReplaceSpaces(s) ==
  IF s = << >> THEN << >>
  ELSE IF IsSpace(Head(s))
       THEN <<"-">> \o ReplaceSpaces(TrimLeft(s))
       ELSE <<Head(s)>> \o ReplaceSpaces(Tail(s))

\* the decimal digits of a natural number, as `${n}` prints it
RECURSIVE NumStr(_)
NumStr(n) == IF n < 10 THEN <<Digits[n + 1]>> ELSE NumStr(n \div 10) \o <<Digits[(n % 10) + 1]>>

(***************************************************************************)
(* slugify(title, {lower: true, strict: true, remove: /[*+~.()'"!:@]/g}):  *)
(* a '-' of the input counts as a space, the removed characters are        *)
(* dropped, strict mode drops all but letters, digits and white space, the *)
(* result is trimmed, white space runs become '-', and it is lower-cased.  *)
(***************************************************************************)
slugify(title) ==
  LET spaced == [i \in 1..Len(title) |-> IF title[i] = "-" THEN " " ELSE title[i]]
      NotRemoved(ch) == ch \notin RemoveChars
      StrictKeeps(ch) == IsAlnum(ch) \/ IsSpace(ch)
      kept == SelectSeq(spaced, NotRemoved)
      strict == SelectSeq(kept, StrictKeeps)
      dashed == ReplaceSpaces(Trim(strict))
  IN [i \in 1..Len(dashed) |-> ToLowerCase(dashed[i])]

(***************************************************************************)
(* Users and tokens.  The users collection is not written by any route of  *)
(* the blog router, so it is a fixed table here: u1 is an active user, u2  *)
(* an active admin, u3 a deactivated user; u4 is in no record.             *)
(***************************************************************************)
NoUser == "none"

UserIds == {"u1", "u2", "u3"}

User ==
  [u \in UserIds |->
     CASE u = "u1" -> [isActive |-> TRUE, role |-> "user"]
       [] u = "u2" -> [isActive |-> TRUE, role |-> "admin"]
       [] u = "u3" -> [isActive |-> FALSE, role |-> "user"]]

\* the Authorization header: absent, or "Bearer <token>"
NoToken == [kind |-> "none", sig |-> "none", expired |-> FALSE, userId |-> NoUser]

MalformedToken == [kind |-> "malformed", sig |-> "none", expired |-> FALSE, userId |-> NoUser]

\* jwt.sign({ userId }, secret, { expiresIn }) with the server's secret (sig good) or another
SignedToken(u, sig, expired) == [kind |-> "jwt", sig |-> sig, expired |-> expired, userId |-> u]

TokenOf(u) == SignedToken(u, "good", FALSE)

\* jwt.verify: the token is decoded, then its signature is checked, then its expiry
verifyToken(token) ==
  IF token.kind = "malformed" THEN [error |-> "JsonWebTokenError", userId |-> NoUser]
  ELSE IF token.sig # "good" THEN [error |-> "JsonWebTokenError", userId |-> NoUser]
  ELSE IF token.expired THEN [error |-> "TokenExpiredError", userId |-> NoUser]
  ELSE [error |-> "none", userId |-> token.userId]

Allow(u) == [next |-> TRUE, code |-> 0, message |-> "", user |-> u]

Reject(code, message) == [next |-> FALSE, code |-> code, message |-> message, user |-> NoUser]

\* (the middleware without its isActive test)
authenticateTokenLax(token) ==
  IF token.kind = "none" THEN Reject(401, "Access token required")
  ELSE LET decoded == verifyToken(token) IN
    IF decoded.error = "JsonWebTokenError" THEN Reject(401, "Invalid token")
    ELSE IF decoded.error = "TokenExpiredError" THEN Reject(401, "Token expired")
    ELSE IF decoded.userId \notin UserIds
         THEN Reject(401, "Invalid token or user not found")
         ELSE Allow(decoded.userId)

authenticateToken(token) ==
  IF token.kind = "none" THEN Reject(401, "Access token required")
  ELSE LET decoded == verifyToken(token) IN
    IF decoded.error = "JsonWebTokenError" THEN Reject(401, "Invalid token")
    ELSE IF decoded.error = "TokenExpiredError" THEN Reject(401, "Token expired")
    ELSE IF decoded.userId \notin UserIds \/ ~User[decoded.userId].isActive
         THEN Reject(401, "Invalid token or user not found")
         ELSE Allow(decoded.userId)

\* (the middleware without its isActive test)
optionalAuthLax(token) ==
  IF token.kind = "none" THEN Allow(NoUser)
  ELSE LET decoded == verifyToken(token) IN
    IF decoded.error # "none" THEN Allow(NoUser)
    ELSE IF decoded.userId \in UserIds
         THEN Allow(decoded.userId)
         ELSE Allow(NoUser)

optionalAuth(token) ==
  IF token.kind = "none" THEN Allow(NoUser)
  ELSE LET decoded == verifyToken(token) IN
    IF decoded.error # "none" THEN Allow(NoUser)
    ELSE IF decoded.userId \in UserIds /\ User[decoded.userId].isActive
         THEN Allow(decoded.userId)
         ELSE Allow(NoUser)

\* the catch blocks: User.findById throws (`fault`) once the token has been verified
authenticateTokenCaught(token, fault) ==
  IF fault /\ token.kind # "none" /\ verifyToken(token).error = "none"
  THEN Reject(500, "Server error during authentication")
  ELSE authenticateToken(token)

optionalAuthCaught(token, fault) ==
  IF fault /\ token.kind # "none" /\ verifyToken(token).error = "none"
  THEN Allow(NoUser)
  ELSE optionalAuth(token)

\* (the middleware without the return: the refusal is sent and next() is called)
requireAdminFallThrough(user) ==
  IF user = NoUser \/ User[user].role # "admin"
  THEN [Reject(403, "Admin access required") EXCEPT !.next = TRUE]
  ELSE Allow(user)

\* requireAdmin(req, res, next)
requireAdmin(user) ==
  IF user = NoUser \/ User[user].role # "admin"
  THEN Reject(403, "Admin access required")
  ELSE Allow(user)

Unset == "unset"           \* req.resource, req.params.userId or a body field not there

\* requireOwnershipOrAdmin(resourceUserField)(req, res, next): `owner` is
\* req.resource?.[field], `paramsUserId` req.params?.userId, `bodyOwner` req.body?.[field]
requireOwnershipOrAdmin(user, owner, paramsUserId, bodyOwner) ==
  IF user = NoUser THEN Reject(401, "Authentication required")
  ELSE IF User[user].role = "admin" THEN Allow(user)
  ELSE LET resourceUserId == IF owner # Unset THEN owner
                             ELSE IF paramsUserId # Unset THEN paramsUserId
                             ELSE bodyOwner
       IN IF resourceUserId # Unset /\ resourceUserId = user THEN Allow(user)
          ELSE Reject(403, "Access denied. You can only access your own resources.")

(***************************************************************************)
(* Documents.  A content string is kept as what the code reads of it: its  *)
(* length and the number of maximal white space runs in it.  A comment's   *)
(* text is kept as its length and how much of it is outer white space.     *)
(***************************************************************************)
Categories == {"Technology", "Lifestyle", "Travel", "Food", "Health", "Business",
               "Education", "Entertainment", "Sports", "Other"}

Statuses == {"draft", "published", "archived"}

TitleMaxLen == 200

ContentMinLen == 50

CommentMaxLen == 1000

WordsPerMinute == 200

Absent == "absent"         \* a body field the request does not carry (undefined)

NoDate == 0                \* publishedAt not set

\* content.split(/\s+/).length: one piece more than there are white space runs
wordCount(content) == content.gaps + 1

\* Math.ceil(wordCount / 200)
readingTimeOf(content) == (wordCount(content) + WordsPerMinute - 1) \div WordsPerMinute

NoContent == [len |-> 0, gaps |-> 0]

NoDoc ==
  [title |-> << >>, slug |-> << >>, content |-> NoContent, category |-> Absent,
   status |-> "draft", views |-> 0, likes |-> << >>, comments |-> << >>,
   readingTime |-> 0, publishedAt |-> NoDate, author |-> NoUser]

\* doc.path = value: Mongoose marks the path modified when the value differs
SetPath(dm, path, value) ==
  IF dm.doc[path] = value THEN dm
  ELSE [doc |-> [dm.doc EXCEPT ![path] = value], mod |-> dm.mod \cup {path}]

\* the schema's validators, run by save() before the pre('save') hooks
schemaValid(doc) ==
  /\ doc.title # << >> /\ Len(doc.title) <= TitleMaxLen
  /\ doc.slug # << >>
  /\ doc.content.len >= ContentMinLen
  /\ doc.author # NoUser
  /\ doc.category \in Categories
  /\ doc.status \in Statuses
  /\ \A i \in 1..Len(doc.comments) :
       /\ doc.comments[i].author # NoUser
       /\ doc.comments[i].len >= 1 /\ doc.comments[i].len <= CommentMaxLen

\* validateBlog: express-validator's checks of the request body, before any sanitizer
validateBlog(body) ==
  /\ Len(body.title) >= 1 /\ Len(body.title) <= TitleMaxLen
  /\ body.content.len >= ContentMinLen
  /\ body.category \in Categories
  /\ body.status = Absent \/ body.status \in Statuses

\* (a length check that lets one character more through)
commentValidWide(text) == text.len >= 1 /\ text.len <= CommentMaxLen + 1

\* body('content').isLength({ min: 1, max: 1000 }) of the comment route, run on the
\* content as sent, before .trim()
commentValid(text) == text.len >= 1 /\ text.len <= CommentMaxLen

\* (the first hook without its isModified('title') test)
preSaveDeriveAlways(dm, clock) ==
  LET d1 == SetPath(dm, "slug", slugify(dm.doc.title))
      d2 == IF "content" \in d1.mod
            THEN SetPath(d1, "readingTime", readingTimeOf(d1.doc.content)) ELSE d1
  IN IF "status" \in d2.mod /\ d2.doc.status = "published" /\ d2.doc.publishedAt = NoDate
     THEN SetPath(d2, "publishedAt", clock) ELSE d2

\* (the first hook without its slug assignment)
preSaveDeriveKeepSlug(dm, clock) ==
  LET d2 == IF "content" \in dm.mod
            THEN SetPath(dm, "readingTime", readingTimeOf(dm.doc.content)) ELSE dm
  IN IF "status" \in d2.mod /\ d2.doc.status = "published" /\ d2.doc.publishedAt = NoDate
     THEN SetPath(d2, "publishedAt", clock) ELSE d2

\* (the first hook without its publish date)
preSaveDeriveNoStamp(dm, clock) ==
  LET d1 == IF "title" \in dm.mod THEN SetPath(dm, "slug", slugify(dm.doc.title)) ELSE dm
  IN IF "content" \in d1.mod
     THEN SetPath(d1, "readingTime", readingTimeOf(d1.doc.content)) ELSE d1

\* first pre('save') hook: slug, reading time and publish date from what was modified
preSaveDerive(dm, clock) ==
  LET d1 == IF "title" \in dm.mod THEN SetPath(dm, "slug", slugify(dm.doc.title)) ELSE dm
      d2 == IF "content" \in d1.mod
            THEN SetPath(d1, "readingTime", readingTimeOf(d1.doc.content)) ELSE d1
  IN IF "status" \in d2.mod /\ d2.doc.status = "published" /\ d2.doc.publishedAt = NoDate
     THEN SetPath(d2, "publishedAt", clock) ELSE d2

\* (a collection without the unique index)
slugTakenNever(store, id, slug) == FALSE

\* the unique index on slug: would writing `slug` on document `id` collide?
slugTaken(store, id, slug) == \E j \in DOMAIN store : j # id /\ store[j].slug = slug

\* Blog.findOne({ slug, _id: { $ne: id } }) of the second pre('save') hook
existingBlog(store, id, slug) == \E j \in DOMAIN store : j # id /\ store[j].slug = slug

\* (a counter that is one ahead)
nextSlugAhead(baseSlug, counter) == baseSlug \o <<"-">> \o NumStr(counter + 1)

\* `${baseSlug}-${counter}`
nextSlug(baseSlug, counter) == baseSlug \o <<"-">> \o NumStr(counter)

\* likes.indexOf(user): 0 when absent (the code's -1), else the first position
indexOf(likes, u) ==
  IF \E i \in 1..Len(likes) : likes[i] = u
  THEN CHOOSE i \in 1..Len(likes) : likes[i] = u /\ \A j \in 1..(i - 1) : likes[j] # u
  ELSE 0

\* likes.splice(i, 1)
splice(likes, i) == SubSeq(likes, 1, i - 1) \o SubSeq(likes, i + 1, Len(likes))

\* slugify(title, { lower: true, strict: true }) of the create route
slugifyRoute(title) ==
  LET spaced == [i \in 1..Len(title) |-> IF title[i] = "-" THEN " " ELSE title[i]]
      StrictKeeps(ch) == IsAlnum(ch) \/ IsSpace(ch)
      dashed == ReplaceSpaces(Trim(SelectSeq(spaced, StrictKeeps)))
  IN [i \in 1..Len(dashed) |-> ToLowerCase(dashed[i])]

(***************************************************************************)
(* State.                                                                  *)
(*   blogs   the blogs collection: _id -> document                         *)
(*   nextId  the _id the next `new Blog` gets                              *)
(*   req     the handlers in flight, one per slot                          *)
(*   now     the clock (Date.now(), new Date())                            *)
(*   last    the response sent last                                        *)
(*   client  the browser: local storage, location, API calls in flight     *)
(* A slot holds the handler's position (pc), the request's token and       *)
(* resolved user, the document in memory with its modified paths, how the  *)
(* likes array was changed (arr), the collision loop's baseSlug and        *)
(* counter, whether the stored __v is still the one loaded (vok), and      *)
(* whether the handler has run without any other handler in flight (alone),*)
(* and the length of the comment content the request carries (sent).       *)
(***************************************************************************)
VARIABLES blogs, nextId, req, now, last, client

vars == <<blogs, nextId, req, now, last, client>>

NoNumber == -1             \* a numeric query parameter the request does not carry

MaxLimit == 50

DefaultLimit == 10

\* the query of GET /blogs (tag and search are left out)
Query(page, limit, category, author) ==
  [page |-> page, limit |-> limit, category |-> category, author |-> author]

Slots == 1..MaxInFlight

Idle ==
  [pc |-> "idle", op |-> "none", token |-> NoToken, user |-> NoUser, id |-> 0,
   doc |-> NoDoc, mod |-> {}, arr |-> "none", baseSlug |-> << >>, counter |-> 0,
   vok |-> TRUE, alone |-> FALSE, sent |-> 0,
   query |-> Query(NoNumber, NoNumber, Absent, Absent), found |-> << >>]

Response(op, code, message, token, user, id) ==
  [op |-> op, code |-> code, message |-> message, token |-> token, user |-> user,
   id |-> id, alone |-> FALSE, before |-> << >>, likeCount |-> 0, isLiked |-> FALSE,
   sent |-> 0]

\* the response of the handler in slot r
Answer(r, code, message) ==
  [Response(req[r].op, code, message, req[r].token, req[r].user, req[r].id)
     EXCEPT !.alone = req[r].alone, !.sent = req[r].sent]

\* (a catch block that passes the error's message on)
ServerErrorDetail(op) == "E11000 duplicate key error collection: blogs index: slug_1"

\* the catch block of each route
ServerError(op) ==
  CASE op = "create" -> "Server error creating blog"
    [] op = "update" -> "Server error updating blog"
    [] op = "delete" -> "Server error deleting blog"
    [] op = "like" -> "Server error processing like"
    [] op = "comment" -> "Server error adding comment"
    [] op = "read" -> "Server error fetching blog"

\* the browser at page load: nothing in local storage, no API call in flight
Calls == 1..MaxCalls

NoCall == [open |-> FALSE, route |-> "none", authorization |-> NoToken]

Browser ==
  [token |-> NoToken, user |-> NoUser, href |-> "/", status |-> 0,
   calls |-> [c \in Calls |-> NoCall]]

Init ==
  /\ blogs = << >>
  /\ nextId = 1
  /\ req = [r \in Slots |-> Idle]
  /\ now = 1
  /\ last = Response("none", 0, "", NoToken, NoUser, 0)
  /\ client = Browser

InFlight == {s \in Slots : req[s].pc # "idle"}

\* a request is taken up by the lowest free slot, while fewer than K are in flight
CanBegin(K, r) ==
  /\ req[r].pc = "idle"
  /\ \A s \in 1..(r - 1) : req[s].pc # "idle"
  /\ Cardinality(InFlight) < K

\* the handler of slot r goes on to its next database call
Activate(r, slot) ==
  /\ req' = [s \in Slots |->
               IF s = r THEN [slot EXCEPT !.alone = (InFlight = {})]
               ELSE IF req[s].pc # "idle" THEN [req[s] EXCEPT !.alone = FALSE]
               ELSE req[s]]
  /\ UNCHANGED <<blogs, now, last, client>>

\* the request is answered before it reaches the database write
Refuse(resp) == last' = resp /\ UNCHANGED <<blogs, nextId, req, now, client>>

\* save(): validation, then the first pre('save') hook; the second hook's loop follows
StartSave(r, slot, dm) ==
  IF ~schemaValid(dm.doc)
  THEN Refuse([Response(slot.op, 500, ServerError(slot.op), slot.token, slot.user, slot.id)
                 EXCEPT !.sent = slot.sent])
  ELSE LET derived == preSaveDerive(dm, now) IN
       Activate(r, [slot EXCEPT !.doc = derived.doc, !.mod = derived.mod,
                                !.pc = IF "title" \in dm.mod THEN "check" ELSE "write",
                                !.baseSlug = derived.doc.slug, !.counter = 1])

\* (a lookup by _id alone)
findOwnedAny(store, id, user) == id \in DOMAIN store

\* Blog.findOne({ _id: id, author: user }) of the update and delete routes
findOwned(store, id, user) == id \in DOMAIN store /\ store[id].author = user

\* POST /blogs up to the first query of save()
BeginCreate(K, maxPosts, r, token, body) ==
  /\ CanBegin(K, r)
  /\ LET auth == authenticateToken(token) IN
     IF ~auth.next
     THEN Refuse(Response("create", auth.code, auth.message, token, NoUser, 0))
     ELSE IF ~validateBlog(body)
     THEN Refuse(Response("create", 400, "Validation failed", token, auth.user, 0))
     ELSE /\ nextId <= maxPosts
          /\ LET title == Trim(body.title)
                 doc == [NoDoc EXCEPT
                           !.title = title,
                           !.slug = slugifyRoute(title) \o <<"-">> \o NumStr(now),
                           !.content = body.content,
                           !.category = body.category,
                           !.status = IF body.status = Absent THEN "draft" ELSE body.status,
                           !.author = auth.user]
                 slot == [Idle EXCEPT !.op = "create", !.token = token,
                                      !.user = auth.user, !.id = nextId]
                 dm == [doc |-> doc,
                        mod |-> {"title", "slug", "content", "category", "status", "author"}]
             IN /\ StartSave(r, slot, dm)
                /\ nextId' = IF schemaValid(doc) THEN nextId + 1 ELSE nextId

\* (the route assigning every field of the body: Object.assign(blog, req.body))
BeginUpdateAssignAll(K, r, token, id, body) ==
  /\ CanBegin(K, r)
  /\ UNCHANGED nextId
  /\ LET auth == authenticateToken(token) IN
     IF ~auth.next
     THEN Refuse(Response("update", auth.code, auth.message, token, NoUser, id))
     ELSE IF ~validateBlog(body)
     THEN Refuse(Response("update", 400, "Validation failed", token, auth.user, id))
     ELSE IF ~findOwned(blogs, id, auth.user)
     THEN Refuse(Response("update", 404, "Blog not found or unauthorized", token, auth.user, id))
     ELSE LET slot == [Idle EXCEPT !.op = "update", !.token = token,
                                   !.user = auth.user, !.id = id]
              d0 == [doc |-> blogs[id], mod |-> {}]
              d1 == SetPath(d0, "title", Trim(body.title))
              d2 == SetPath(d1, "content", body.content)
              d3 == SetPath(d2, "category", body.category)
              d4 == SetPath(d3, "status",
                            IF body.status = Absent THEN d3.doc.status ELSE body.status)
              d5 == IF "author" \in DOMAIN body THEN SetPath(d4, "author", body.author) ELSE d4
          IN StartSave(r, slot, d5)

\* PUT /blogs/:id up to the first query of save()
BeginUpdate(K, r, token, id, body) ==
  /\ CanBegin(K, r)
  /\ UNCHANGED nextId
  /\ LET auth == authenticateToken(token) IN
     IF ~auth.next
     THEN Refuse(Response("update", auth.code, auth.message, token, NoUser, id))
     ELSE IF ~validateBlog(body)
     THEN Refuse(Response("update", 400, "Validation failed", token, auth.user, id))
     ELSE IF ~findOwned(blogs, id, auth.user)
     THEN Refuse(Response("update", 404, "Blog not found or unauthorized", token, auth.user, id))
     ELSE LET slot == [Idle EXCEPT !.op = "update", !.token = token,
                                   !.user = auth.user, !.id = id]
              d0 == [doc |-> blogs[id], mod |-> {}]
              d1 == SetPath(d0, "title", Trim(body.title))
              d2 == SetPath(d1, "content", body.content)
              d3 == SetPath(d2, "category", body.category)
              d4 == SetPath(d3, "status",
                            IF body.status = Absent THEN d3.doc.status ELSE body.status)
          IN StartSave(r, slot, d4)

\* DELETE /blogs/:id up to findByIdAndDelete
BeginDelete(K, r, token, id) ==
  /\ CanBegin(K, r)
  /\ UNCHANGED nextId
  /\ LET auth == authenticateToken(token) IN
     IF ~auth.next
     THEN Refuse(Response("delete", auth.code, auth.message, token, NoUser, id))
     ELSE IF ~findOwned(blogs, id, auth.user)
     THEN Refuse(Response("delete", 404, "Blog not found or unauthorized", token, auth.user, id))
     ELSE Activate(r, [Idle EXCEPT !.op = "delete", !.token = token, !.user = auth.user,
                                   !.id = id, !.doc = blogs[id], !.pc = "delete"])

\* (a like route that looks among the published posts only)
BeginLikePublished(K, r, token, id) ==
  /\ CanBegin(K, r)
  /\ UNCHANGED nextId
  /\ LET auth == authenticateToken(token) IN
     IF ~auth.next
     THEN Refuse(Response("like", auth.code, auth.message, token, NoUser, id))
     ELSE IF id \notin DOMAIN blogs \/ blogs[id].status # "published"
     THEN Refuse(Response("like", 404, "Blog not found", token, auth.user, id))
     ELSE LET blog == blogs[id]
              userLikeIndex == indexOf(blog.likes, auth.user)
              likes == IF userLikeIndex > 0 THEN splice(blog.likes, userLikeIndex)
                       ELSE Append(blog.likes, auth.user)
              slot == [Idle EXCEPT !.op = "like", !.token = token, !.user = auth.user,
                                   !.id = id,
                                   !.arr = IF userLikeIndex > 0 THEN "set" ELSE "push"]
          IN StartSave(r, slot, [doc |-> [blog EXCEPT !.likes = likes], mod |-> {"likes"}])

\* POST /blogs/:id/like up to the write of save()
BeginLike(K, r, token, id) ==
  /\ CanBegin(K, r)
  /\ UNCHANGED nextId
  /\ LET auth == authenticateToken(token) IN
     IF ~auth.next
     THEN Refuse(Response("like", auth.code, auth.message, token, NoUser, id))
     ELSE IF id \notin DOMAIN blogs
     THEN Refuse(Response("like", 404, "Blog not found", token, auth.user, id))
     ELSE LET blog == blogs[id]
              userLikeIndex == indexOf(blog.likes, auth.user)
              likes == IF userLikeIndex > 0 THEN splice(blog.likes, userLikeIndex)
                       ELSE Append(blog.likes, auth.user)
              slot == [Idle EXCEPT !.op = "like", !.token = token, !.user = auth.user,
                                   !.id = id,
                                   !.arr = IF userLikeIndex > 0 THEN "set" ELSE "push"]
          IN StartSave(r, slot, [doc |-> [blog EXCEPT !.likes = likes], mod |-> {"likes"}])

\* POST /blogs/:id/comments up to the write of save()
BeginComment(K, r, token, id, text) ==
  /\ CanBegin(K, r)
  /\ UNCHANGED nextId
  /\ LET auth == authenticateToken(token) IN
     IF ~auth.next
     THEN Refuse([Response("comment", auth.code, auth.message, token, NoUser, id)
                    EXCEPT !.sent = text.len])
     ELSE IF ~commentValid(text)
     THEN Refuse([Response("comment", 400, "Validation failed", token, auth.user, id)
                    EXCEPT !.sent = text.len])
     ELSE IF id \notin DOMAIN blogs
     THEN Refuse([Response("comment", 404, "Blog not found", token, auth.user, id)
                    EXCEPT !.sent = text.len])
     ELSE /\ Len(blogs[id].comments) < MaxComments
          /\ LET blog == blogs[id]
                 comment == [author |-> auth.user, len |-> text.len - text.pad,
                             createdAt |-> now]
                 slot == [Idle EXCEPT !.op = "comment", !.token = token,
                                      !.user = auth.user, !.id = id, !.sent = text.len]
             IN StartSave(r, slot, [doc |-> [blog EXCEPT !.comments = Append(@, comment)],
                                    mod |-> {"comments"}])

\* (the route without blog.views += 1)
BeginReadQuiet(K, r, token, slug) ==
  /\ CanBegin(K, r)
  /\ UNCHANGED nextId
  /\ LET auth == optionalAuth(token)
         found == {i \in DOMAIN blogs : blogs[i].slug = slug /\ blogs[i].status = "published"}
     IN IF found = {}
        THEN Refuse(Response("read", 404, "Blog not found", token, auth.user, 0))
        ELSE \E id \in found :
               /\ blogs[id].views < MaxViews
               /\ LET slot == [Idle EXCEPT !.op = "read", !.token = token,
                                           !.user = auth.user, !.id = id]
                  IN StartSave(r, slot, [doc |-> blogs[id], mod |-> {}])

\* GET /blogs/:slug up to the write of save()
BeginRead(K, r, token, slug) ==
  /\ CanBegin(K, r)
  /\ UNCHANGED nextId
  /\ LET auth == optionalAuth(token)
         found == {i \in DOMAIN blogs : blogs[i].slug = slug /\ blogs[i].status = "published"}
     IN IF found = {}
        THEN Refuse(Response("read", 404, "Blog not found", token, auth.user, 0))
        ELSE \E id \in found :
               /\ blogs[id].views < MaxViews
               /\ LET slot == [Idle EXCEPT !.op = "read", !.token = token,
                                           !.user = auth.user, !.id = id]
                  IN StartSave(r, slot, SetPath([doc |-> blogs[id], mod |-> {}],
                                                 "views", blogs[id].views + 1))

\* the validators of GET /blogs; isMongoId accepts what has the shape of an id
validateQuery(q) ==
  /\ q.page = NoNumber \/ q.page >= 1
  /\ q.limit = NoNumber \/ (q.limit >= 1 /\ q.limit <= MaxLimit)
  /\ q.author = Absent \/ q.author \in UserIds \cup {"u4"}

\* the filter { status: 'published', isActive: true, category, author }
listFilter(store, q) ==
  {i \in DOMAIN store :
     /\ store[i].status = "published"
     /\ q.category = Absent \/ store[i].category = q.category
     /\ q.author = Absent \/ store[i].author = q.author}

\* .sort({ publishedAt: -1 }): the orders of `ids` with the latest first
sortedByPublishedAt(store, ids) ==
  {s \in [1..Cardinality(ids) -> ids] :
     /\ \A i, j \in 1..Cardinality(ids) : i < j => s[i] # s[j]
     /\ \A i, j \in 1..Cardinality(ids) :
          i < j => store[s[i]].publishedAt >= store[s[j]].publishedAt}

\* .skip(skip).limit(limit)
pageOf(s, skip, limit) ==
  [k \in 1..(IF Len(s) - skip < 0 THEN 0
             ELSE IF Len(s) - skip < limit THEN Len(s) - skip ELSE limit) |-> s[skip + k]]

\* GET /blogs up to Blog.find
BeginList(K, r, token, q) ==
  /\ CanBegin(K, r)
  /\ UNCHANGED nextId
  /\ LET auth == optionalAuth(token) IN
     IF ~validateQuery(q)
     THEN Refuse(Response("list", 400, "Validation failed", token, auth.user, 0))
     ELSE LET page == IF q.page = NoNumber THEN 1 ELSE q.page
              limit == IF q.limit = NoNumber THEN DefaultLimit ELSE q.limit
          IN \E s \in sortedByPublishedAt(blogs, listFilter(blogs, q)) :
               Activate(r, [Idle EXCEPT !.pc = "count", !.op = "list", !.token = token,
                                        !.user = auth.user, !.query = q,
                                        !.found = pageOf(s, (page - 1) * limit, limit)])

\* Blog.countDocuments(filter) of GET /blogs, and its response
Count(r) ==
  /\ req[r].pc = "count"
  /\ last' = Answer(r, 200, "") @@
               [blogs |-> req[r].found, query |-> req[r].query,
                totalBlogs |-> Cardinality(listFilter(blogs, req[r].query))]
  /\ req' = [req EXCEPT ![r] = Idle]
  /\ UNCHANGED <<blogs, nextId, now, client>>

\* (a loop that counts but tries the same slug again)
SlugCheckStuck(r) ==
  /\ req[r].pc = "check"
  /\ LET slot == req[r] IN
     IF existingBlog(blogs, slot.id, slot.doc.slug)
     THEN req' = [req EXCEPT ![r].counter = slot.counter + 1]
     ELSE req' = [req EXCEPT ![r].pc = "write"]
  /\ UNCHANGED <<blogs, nextId, now, last, client>>

\* one turn of the second pre('save') hook's loop: findOne, then rename or leave the loop
SlugCheck(r) ==
  /\ req[r].pc = "check"
  /\ LET slot == req[r] IN
     IF existingBlog(blogs, slot.id, slot.doc.slug)
     THEN LET dm == SetPath([doc |-> slot.doc, mod |-> slot.mod], "slug",
                            nextSlug(slot.baseSlug, slot.counter))
          IN req' = [req EXCEPT ![r] = [slot EXCEPT !.doc = dm.doc, !.mod = dm.mod,
                                                     !.counter = slot.counter + 1]]
     ELSE req' = [req EXCEPT ![r].pc = "write"]
  /\ UNCHANGED <<blogs, nextId, now, last, client>>

\* (an update that writes the modified paths whole, arrays included)
applyDeltaWhole(stored, slot) ==
  [f \in DOMAIN stored |-> IF f \in slot.mod THEN slot.doc[f] ELSE stored[f]]

\* what the update of save() leaves in the stored document: $set of the modified
\* paths, $push of a like or a comment added to the array in memory
applyDelta(stored, slot) ==
  [f \in DOMAIN stored |->
     IF f = "likes" /\ slot.arr = "push" THEN Append(stored.likes, slot.user)
     ELSE IF f = "comments" /\ slot.op = "comment"
          THEN Append(stored.comments, slot.doc.comments[Len(slot.doc.comments)])
     ELSE IF f \in slot.mod THEN slot.doc[f]
     ELSE stored[f]]

\* the write of save() is refused: the document is gone, its __v moved under a
\* $set of the whole likes array, or the unique index on slug rejects the value
writeFails(store, slot) ==
  IF slot.op = "create" THEN slugTaken(store, slot.id, slot.doc.slug)
  ELSE \/ slot.id \notin DOMAIN store
       \/ slot.arr = "set" /\ ~slot.vok
       \/ "slug" \in slot.mod /\ slugTaken(store, slot.id, slot.doc.slug)

\* the response after a successful save()
Success(r) ==
  LET slot == req[r] IN
  CASE slot.op = "create" -> Answer(r, 201, "Blog created successfully")
    [] slot.op = "update" -> Answer(r, 200, "Blog updated successfully")
    [] slot.op = "comment" -> Answer(r, 201, "Comment added successfully")
    [] slot.op = "read" -> Answer(r, 200, "")
    [] slot.op = "like" ->
         [Answer(r, 200, IF slot.arr = "set" THEN "Blog unliked" ELSE "Blog liked")
            EXCEPT !.before = blogs[slot.id].likes,
                   !.likeCount = Len(slot.doc.likes),
                   !.isLiked = (slot.arr = "push")]

\* (a write that is not atomic: when it is refused, the paths other than slug are stored)
WriteTorn(r) ==
  /\ req[r].pc = "write"
  /\ LET slot == req[r] IN
     IF writeFails(blogs, slot)
     THEN /\ last' = Answer(r, 500, ServerError(slot.op))
          /\ req' = [req EXCEPT ![r] = Idle]
          /\ blogs' = IF slot.id \in DOMAIN blogs
                      THEN [blogs EXCEPT ![slot.id] =
                              applyDelta(@, [slot EXCEPT !.mod = @ \ {"slug"}])]
                      ELSE [i \in DOMAIN blogs \cup {slot.id} |->
                              IF i = slot.id THEN [slot.doc EXCEPT !.slug = << >>]
                              ELSE blogs[i]]
     ELSE /\ last' = Success(r)
          /\ blogs' = IF slot.op = "create"
                      THEN [i \in DOMAIN blogs \cup {slot.id} |->
                              IF i = slot.id THEN slot.doc ELSE blogs[i]]
                      ELSE [blogs EXCEPT ![slot.id] = applyDelta(@, slot)]
          /\ req' = [req EXCEPT ![r] = Idle]
  /\ UNCHANGED <<nextId, now, client>>

\* the insert or update of save(), and the route's response
Write(r) ==
  /\ req[r].pc = "write"
  /\ LET slot == req[r]
         bumps == slot.arr # "none" \/ slot.op = "comment"
     IN IF writeFails(blogs, slot)
        THEN /\ last' = Answer(r, 500, ServerError(slot.op))
             /\ req' = [req EXCEPT ![r] = Idle]
             /\ UNCHANGED blogs
        ELSE /\ last' = Success(r)
             /\ blogs' = IF slot.op = "create"
                         THEN [i \in DOMAIN blogs \cup {slot.id} |->
                                 IF i = slot.id THEN slot.doc ELSE blogs[i]]
                         ELSE [blogs EXCEPT ![slot.id] = applyDelta(@, slot)]
             /\ req' = [s \in Slots |->
                          IF s = r THEN Idle
                          ELSE IF bumps /\ req[s].pc # "idle" /\ req[s].id = slot.id
                               THEN [req[s] EXCEPT !.vok = FALSE]
                               ELSE req[s]]
  /\ UNCHANGED <<nextId, now, client>>

\* (a deletion that archives the document and keeps it)
DeleteSoft(r) ==
  /\ req[r].pc = "delete"
  /\ blogs' = [blogs EXCEPT ![req[r].id].status = "archived"]
  /\ last' = Answer(r, 200, "Blog deleted successfully")
  /\ req' = [req EXCEPT ![r] = Idle]
  /\ UNCHANGED <<nextId, now, client>>

\* Blog.findByIdAndDelete of the delete route, and its response
Delete(r) ==
  /\ req[r].pc = "delete"
  /\ blogs' = [i \in DOMAIN blogs \ {req[r].id} |-> blogs[i]]
  /\ last' = Answer(r, 200, "Blog deleted successfully")
  /\ req' = [req EXCEPT ![r] = Idle]
  /\ UNCHANGED <<nextId, now, client>>

\* a request about post `id` passes the identity middleware and then the ownership
\* gate on the field author; `loaded` tells whether an earlier middleware has put
\* the post in req.resource
OwnershipGate(token, id, loaded, paramsUserId, bodyOwner) ==
  LET auth == optionalAuth(token)
      owner == IF loaded /\ id \in DOMAIN blogs THEN blogs[id].author ELSE Unset
      gate == requireOwnershipOrAdmin(auth.user, owner, paramsUserId, bodyOwner)
  IN /\ last' = [op |-> "gate", code |-> gate.code, message |-> gate.message,
                 token |-> token, user |-> auth.user, id |-> id, next |-> gate.next,
                 loaded |-> loaded, paramsUserId |-> paramsUserId, bodyOwner |-> bodyOwner]
     /\ UNCHANGED <<blogs, nextId, req, now, client>>

\* one invocation of authenticateToken, of optionalAuth, or of requireAdmin behind
\* optionalAuth; `next` tells whether next() was called, a code other than 0 that
\* a response was sent
Middleware(name, token, fault) ==
  LET auth == optionalAuthCaught(token, fault)
      out == CASE name = "authenticateToken" -> authenticateTokenCaught(token, fault)
               [] name = "optionalAuth" -> auth
               [] name = "requireAdmin" -> requireAdmin(auth.user)
  IN /\ last' = [op |-> name, code |-> out.code, message |-> out.message,
                 token |-> token, user |-> IF name = "requireAdmin" THEN auth.user ELSE out.user,
                 next |-> out.next, fault |-> fault]
     /\ UNCHANGED <<blogs, nextId, req, now, client>>

\* time passes
Tick ==
  /\ now < MaxNow
  /\ now' = now + 1
  /\ UNCHANGED <<blogs, nextId, req, last, client>>

(***************************************************************************)
(* The client (lib/api.js).  A call is sent through the request            *)
(* interceptor and its response comes back through the response            *)
(* interceptor.  The server answers a call to a route behind               *)
(* authenticateToken with that middleware's refusal, if it refuses, and    *)
(* else with a status of the route's handler.                              *)
(***************************************************************************)
HandlerStatuses == {200, 400, 404, 500}

\* api.interceptors.request: the Authorization header of the call that is sent
\* (NoToken: no header)
requestInterceptor(storage) ==
  IF storage.token # NoToken THEN storage.token ELSE NoToken

\* (the handler without its removal of the cached profile)
responseInterceptorKeepUser(cl, status) ==
  IF status = 401
  THEN [cl EXCEPT !.token = NoToken, !.href = "/login", !.status = status]
  ELSE [cl EXCEPT !.status = status]

\* api.interceptors.response: local storage and location after a response
responseInterceptor(cl, status) ==
  IF status = 401
  THEN [cl EXCEPT !.token = NoToken, !.user = NoUser, !.href = "/login", !.status = status]
  ELSE [cl EXCEPT !.status = status]

\* api.get / api.post / ...: a call leaves through the request interceptor
Send(c, route) ==
  /\ ~client.calls[c].open
  /\ client' = [client EXCEPT !.calls[c] =
                  [open |-> TRUE, route |-> route,
                   authorization |-> requestInterceptor(client)]]
  /\ UNCHANGED <<blogs, nextId, req, now, last>>

\* the response of call c arrives; after a 401 the assignment to location.href
\* unloads the page, at once (the other calls are dropped) or after their responses
Receive(c) ==
  /\ client.calls[c].open
  /\ LET call == client.calls[c]
         auth == authenticateToken(call.authorization)
         statuses == IF call.route = "protected" /\ ~auth.next THEN {auth.code}
                     ELSE HandlerStatuses
     IN \E status \in statuses, unload \in BOOLEAN :
          LET cl == responseInterceptor(client, status) IN
          client' = [cl EXCEPT !.calls =
                       [d \in Calls |-> IF d = c \/ (status = 401 /\ unload) THEN NoCall
                                        ELSE cl.calls[d]]]
  /\ UNCHANGED <<blogs, nextId, req, now, last>>

\* the login page stores the token and the profile the server has issued
StoreSession(u) ==
  /\ client.href = "/login"
  /\ client' = [client EXCEPT !.token = TokenOf(u), !.user = u, !.href = "/"]
  /\ UNCHANGED <<blogs, nextId, req, now, last>>

\* the user follows a link
Navigate(href) ==
  /\ client.href # href
  /\ client' = [client EXCEPT !.href = href]
  /\ UNCHANGED <<blogs, nextId, req, now, last>>

\* the stored token outlives its expiresIn
Expire ==
  /\ client.token # NoToken /\ ~client.token.expired
  /\ client' = [client EXCEPT !.token.expired = TRUE]
  /\ UNCHANGED <<blogs, nextId, req, now, last>>

(***************************************************************************)
(* Requests.  The titles, contents, comment texts and tokens the           *)
(* specifications send.                                                    *)
(***************************************************************************)
TitleHi == <<"H", "i", "!">>

TitleLower == <<"h", "i">>

TitleNumbered == <<"h", "i", " ", "1">>

TitlePunct == <<"!", "!">>

TitleBlank == <<" ">>

TitleHello == <<"H", "e", "l", "l", "o", " ", "W", "o", "r", "l", "d", "!">>

TitleHelloLower == <<"h", "e", "l", "l", "o", " ", "w", "o", "r", "l", "d">>

ContentBrief == [len |-> 60, gaps |-> 9]          \* 10 words

ContentExact == [len |-> 1200, gaps |-> 199]      \* 200 words

ContentLong == [len |-> 1300, gaps |-> 200]       \* 201 words

ContentTiny == [len |-> 10, gaps |-> 1]           \* under the minimum length

Body(title, content, status) ==
  [title |-> title, content |-> content, category |-> "Technology", status |-> status]

\* a body that carries an author field as well
BodyBy(title, content, status, author) ==
  [title |-> title, content |-> content, category |-> "Technology", status |-> status,
   author |-> author]

Text(len, pad) == [len |-> len, pad |-> pad]

\* the slugs a reader can ask for: the stored ones, and one no post has
Asked == {blogs[i].slug : i \in DOMAIN blogs} \cup {<<"w", "o", "w">>}

\* the steps of the handlers in flight, common to every specification
Step == \E r \in Slots : SlugCheck(r) \/ Write(r) \/ Delete(r)

\* the requests a specification sends: at most c.K at a time, c.posts documents
\* in all, tokens, bodies and comment texts drawn from the sets of c
Authoring(c) ==
  \E r \in Slots :
    \/ \E tk \in c.authors, b \in c.bodies : BeginCreate(c.K, c.posts, r, tk, b)
    \/ \E tk \in c.editors, b \in c.edits, id \in 1..c.posts : BeginUpdate(c.K, r, tk, id, b)
    \/ \E tk \in c.editors, id \in 1..c.posts : BeginDelete(c.K, r, tk, id)

Engaging(c) ==
  \E r \in Slots :
    \/ \E tk \in c.fans, id \in 1..c.posts : BeginLike(c.K, r, tk, id)
    \/ \E tk \in c.fans, id \in 1..c.posts, x \in c.texts : BeginComment(c.K, r, tk, id, x)
    \/ \E tk \in c.readers, sl \in Asked : BeginRead(c.K, r, tk, sl)

Requests(c) == Authoring(c) \/ Engaging(c)

AllTokens ==
  {NoToken, MalformedToken, SignedToken("u1", "bad", FALSE), SignedToken("u1", "bad", TRUE),
   SignedToken("u1", "good", TRUE),
   TokenOf("u1"), TokenOf("u2"), TokenOf("u3"), TokenOf("u4")}

(***************************************************************************)
(* Spec: one request at a time; titles vary, over every route.             *)
(***************************************************************************)
SlugBodies == {Body(t, ContentBrief, "published") : t \in {TitleHi, TitleLower, TitlePunct}}

SeqRequests ==
  [K |-> 1, posts |-> MaxPosts,
   authors |-> {TokenOf("u1")},
   editors |-> {TokenOf("u1"), TokenOf("u2")},
   fans |-> {TokenOf("u2")},
   readers |-> {NoToken},
   bodies |-> SlugBodies,
   edits |-> SlugBodies \cup {Body(TitleHi, ContentBrief, "draft")},
   texts |-> {Text(1000, 0)}]

Next == Requests(SeqRequests) \/ Step

Spec == Init /\ [][Next]_vars

(***************************************************************************)
(* SpecLife: one request at a time on one document; contents, statuses and *)
(* the clock vary.                                                         *)
(***************************************************************************)
MaxLifePosts == 1

LifeRequests ==
  [K |-> 1, posts |-> MaxLifePosts,
   authors |-> {TokenOf("u1")},
   editors |-> {TokenOf("u1")},
   fans |-> {NoToken, TokenOf("u2")},
   readers |-> {NoToken},
   bodies |-> {Body(TitleHi, ContentBrief, st) : st \in {Absent, "published"}},
   edits |-> {Body(TitleHi, c, st) : c \in {ContentBrief, ContentExact, ContentLong},
                                     st \in {Absent, "draft", "published", "archived"}}
               \cup {Body(TitleLower, ContentLong, Absent)},
   texts |-> {Text(1000, 0)}]

NextLife == Requests(LifeRequests) \/ Step \/ Tick

SpecLife == Init /\ [][NextLife]_vars

(***************************************************************************)
(* SpecRace: up to MaxInFlight creations, updates and deletions overlap on *)
(* one document; contents, statuses and the clock vary.                    *)
(***************************************************************************)
MaxRacePosts == 1

RaceRequests ==
  [K |-> MaxInFlight, posts |-> MaxRacePosts,
   authors |-> {TokenOf("u1")},
   editors |-> {TokenOf("u1")},
   bodies |-> {Body(TitleHi, ContentBrief, Absent)},
   edits |-> {Body(TitleHi, c, st) : c \in {ContentBrief, ContentExact, ContentLong},
                                     st \in {Absent, "published"}}]

NextRace == Authoring(RaceRequests) \/ Step \/ Tick

SpecRace == Init /\ [][NextRace]_vars

(***************************************************************************)
(* SpecAuth: one request at a time on one document, under every token.     *)
(***************************************************************************)
MaxAuthPosts == 1

AuthRequests ==
  [K |-> 1, posts |-> MaxAuthPosts,
   authors |-> AllTokens, editors |-> AllTokens, fans |-> AllTokens, readers |-> AllTokens,
   bodies |-> {BodyBy(TitleHi, ContentBrief, "published", a) : a \in {"u1", "u2"}},
   edits |-> {BodyBy(TitleLower, ContentBrief, Absent, a) : a \in {"u1", "u2"}},
   texts |-> {Text(1000, 0)}]

NextAuth == Requests(AuthRequests) \/ Step

SpecAuth == Init /\ [][NextAuth]_vars

(***************************************************************************)
(* SpecConc: up to MaxInFlight creations, updates, deletions and like       *)
(* toggles overlap.                                                        *)
(***************************************************************************)
ConcBodies == {Body(t, ContentBrief, "published") : t \in {TitleHi, TitleLower}}

ConcRequests ==
  [K |-> MaxInFlight, posts |-> MaxPosts,
   authors |-> {TokenOf("u1")},
   editors |-> {TokenOf("u1")},
   bodies |-> ConcBodies,
   edits |-> ConcBodies]

NextConc ==
  \/ Authoring(ConcRequests)
  \/ \E r \in Slots, id \in 1..MaxPosts : BeginLike(MaxInFlight, r, TokenOf("u1"), id)
  \/ Step

SpecConc == Init /\ [][NextConc]_vars

(***************************************************************************)
(* SpecLike: up to MaxInFlight like toggles of two users overlap on one    *)
(* document.                                                               *)
(***************************************************************************)
MaxLikePosts == 1

NextLike ==
  \/ BeginCreate(1, MaxLikePosts, 1, TokenOf("u1"), Body(TitleHi, ContentBrief, "published"))
  \/ \E r \in Slots, tk \in {TokenOf("u1"), TokenOf("u2")}, id \in 1..(MaxLikePosts + 1) :
       BeginLike(MaxInFlight, r, tk, id)
  \/ \E r \in Slots : SlugCheck(r) \/ Write(r)

SpecLike == Init /\ [][NextLike]_vars

(***************************************************************************)
(* SpecCreate: posts are created one after the other, and nothing else.    *)
(***************************************************************************)
CreateTitles == {TitleHello, TitleHelloLower, TitleHi, TitleNumbered, TitlePunct}

NextCreate ==
  \/ \E b \in {Body(t, ContentBrief, Absent) : t \in CreateTitles} :
       BeginCreate(1, MaxSeqPosts, 1, TokenOf("u1"), b)
  \/ SlugCheck(1)
  \/ Write(1)

SpecCreate == Init /\ [][NextCreate]_vars

(***************************************************************************)
(* SpecGate: posts of two authors are created one after the other, and     *)
(* requests about them go through the ownership gate.                      *)
(***************************************************************************)
MaxGatePosts == 2

GateTokens == {NoToken, TokenOf("u1"), TokenOf("u2"), TokenOf("u3")}

NextGate ==
  \/ \E tk \in {TokenOf("u1"), TokenOf("u2")} :
       BeginCreate(1, MaxGatePosts, 1, tk, Body(TitleHi, ContentBrief, Absent))
  \/ SlugCheck(1)
  \/ Write(1)
  \/ \E tk \in GateTokens, id \in 1..MaxGatePosts, loaded \in BOOLEAN,
        p \in {Unset, "u1"}, b \in {Unset, "u1", "u2"} :
       OwnershipGate(tk, id, loaded, p, b)

SpecGate == Init /\ [][NextGate]_vars

(***************************************************************************)
(* SpecWare: SpecGate, and every middleware is invoked with every token,   *)
(* with and without a fault of the user lookup.                            *)
(***************************************************************************)
Middlewares == {"authenticateToken", "optionalAuth", "requireAdmin"}

NextWare ==
  \/ NextGate
  \/ \E name \in Middlewares, tk \in AllTokens, fault \in BOOLEAN : Middleware(name, tk, fault)

SpecWare == Init /\ [][NextWare]_vars

(***************************************************************************)
(* SpecDemote: up to MaxInFlight reads, listings and status changes overlap *)
(* on one document.                                                        *)
(***************************************************************************)
MaxDemotePosts == 1

DemoteTokens == {NoToken, TokenOf("u1")}

DemoteQueries ==
  {Query(NoNumber, NoNumber, Absent, Absent), Query(2, 1, Absent, Absent),
   Query(0, NoNumber, Absent, Absent), Query(NoNumber, MaxLimit + 1, Absent, Absent),
   Query(NoNumber, NoNumber, "Food", Absent), Query(NoNumber, NoNumber, Absent, "u1"),
   Query(NoNumber, NoNumber, Absent, "me")}

NextDemote ==
  \/ BeginCreate(MaxInFlight, MaxDemotePosts, 1, TokenOf("u1"),
                 Body(TitleHi, ContentBrief, "published"))
  \/ \E r \in Slots, st \in {"draft", "archived", "published"} :
       BeginUpdate(MaxInFlight, r, TokenOf("u1"), MaxDemotePosts, Body(TitleHi, ContentBrief, st))
  \/ \E r \in Slots, tk \in DemoteTokens, sl \in Asked : BeginRead(MaxInFlight, r, tk, sl)
  \/ \E r \in Slots, tk \in DemoteTokens, q \in DemoteQueries : BeginList(MaxInFlight, r, tk, q)
  \/ \E r \in Slots : SlugCheck(r) \/ Write(r) \/ Count(r)

SpecDemote == Init /\ [][NextDemote]_vars

(***************************************************************************)
(* SpecFail: up to MaxInFlight creations and updates by the author and by   *)
(* another user overlap; some bodies are refused by the validators.        *)
(***************************************************************************)
MaxFailPosts == 2

FailBodies ==
  {Body(TitleHi, ContentBrief, Absent), Body(TitleLower, ContentExact, "published"),
   Body(TitleHi, ContentTiny, Absent)}

NextFail ==
  \/ \E r \in Slots, b \in FailBodies :
       BeginCreate(MaxInFlight, MaxFailPosts, r, TokenOf("u1"), b)
  \/ \E r \in Slots, tk \in {TokenOf("u1"), TokenOf("u2")}, id \in 1..MaxFailPosts,
        b \in FailBodies :
       BeginUpdate(MaxInFlight, r, tk, id, b)
  \/ \E r \in Slots : SlugCheck(r) \/ Write(r)

SpecFail == Init /\ [][NextFail]_vars

(***************************************************************************)
(* SpecTalk: comments of every length class are sent, one request at a     *)
(* time, to one post and to a post that does not exist.                    *)
(***************************************************************************)
MaxTalkPosts == 1

TalkTexts == {Text(0, 0), Text(1, 0), Text(1000, 0), Text(1001, 0), Text(1001, 1)}

NextTalk ==
  \/ BeginCreate(1, MaxTalkPosts, 1, TokenOf("u1"), Body(TitleHi, ContentBrief, "published"))
  \/ \E tk \in {TokenOf("u1"), TokenOf("u2")}, id \in 1..(MaxTalkPosts + 1), x \in TalkTexts :
       BeginComment(1, 1, tk, id, x)
  \/ SlugCheck(1)
  \/ Write(1)
  \/ Tick

SpecTalk == Init /\ [][NextTalk]_vars

(***************************************************************************)
(* SpecClient: the browser alone; the server is its middleware.            *)
(***************************************************************************)
NextClient ==
  \/ \E c \in Calls, route \in {"protected", "public"} : Send(c, route)
  \/ \E c \in Calls : Receive(c)
  \/ \E u \in {"u1", "u3"} : StoreSession(u)
  \/ \E href \in {"/", "/login", "/dashboard"} : Navigate(href)
  \/ Expire

SpecClient == Init /\ [][NextClient]_vars

(***************************************************************************)
(* SpecCrowd: up to MaxInFlight like toggles and comments of two users     *)
(* overlap on one document.                                                *)
(***************************************************************************)
MaxCrowdPosts == 1

NextCrowd ==
  \/ BeginCreate(1, MaxCrowdPosts, 1, TokenOf("u1"), Body(TitleHi, ContentBrief, "published"))
  \/ \E r \in Slots, tk \in {TokenOf("u1"), TokenOf("u2")} :
       \/ BeginLike(MaxInFlight, r, tk, MaxCrowdPosts)
       \/ BeginComment(MaxInFlight, r, tk, MaxCrowdPosts, Text(1000, 0))
  \/ \E r \in Slots : SlugCheck(r) \/ Write(r)

SpecCrowd == Init /\ [][NextCrowd]_vars

(***************************************************************************)
(* SpecInput: one request at a time by one user; the bodies, comment texts *)
(* and post ids are well-formed or break one constraint each.              *)
(***************************************************************************)
MaxInputPosts == 1

InputBodies ==
  {Body(TitleHi, ContentBrief, Absent),
   Body(TitleLower, ContentExact, "published"),
   Body(TitleBlank, ContentBrief, Absent),
   Body(TitleHi, ContentTiny, Absent),
   [Body(TitleHi, ContentBrief, Absent) EXCEPT !.category = "Poetry"],
   Body(TitleHi, ContentBrief, "hidden")}

InputTexts == {Text(1000, 0), Text(0, 0), Text(1001, 0), Text(1, 1)}

NextInput ==
  \/ \E b \in InputBodies : BeginCreate(1, MaxInputPosts, 1, TokenOf("u1"), b)
  \/ \E b \in InputBodies, id \in 1..(MaxInputPosts + 1) :
       BeginUpdate(1, 1, TokenOf("u1"), id, b)
  \/ \E id \in 1..(MaxInputPosts + 1) : BeginLike(1, 1, TokenOf("u1"), id)
  \/ \E id \in 1..(MaxInputPosts + 1), x \in InputTexts :
       BeginComment(1, 1, TokenOf("u1"), id, x)
  \/ SlugCheck(1)
  \/ Write(1)

SpecInput == Init /\ [][NextInput]_vars

(***************************************************************************)
(* Properties.                                                             *)
(***************************************************************************)
Stored == DOMAIN blogs

Member(u, likes) == \E k \in 1..Len(likes) : likes[k] = u

SlugHi == <<"h", "i">>

SlugHello == <<"h", "e", "l", "l", "o", "-", "w", "o", "r", "l", "d">>

\* C1: in every reachable state, overlapping creations and title changes of
\* posts with identical titles included, no two stored posts have the same slug.
C1_SlugsUnique ==
  \A i \in Stored, j \in Stored : i # j => blogs[i].slug # blogs[j].slug

\* two creations overlapped and the unique index has refused the later insert (the
\* requests of SpecConc are all valid: nothing else answers a creation with 500)
C1_Witness ==
  /\ last.op = "create" /\ last.code = 500 /\ ~last.alone
  /\ Stored # {}

\* C2: every stored post has a non-empty slug; a title that slugifies to the
\* empty string is saved under a fallback or not at all.
C2_NoEmptySlug == \A i \in Stored : blogs[i].slug # << >>

\* C3: N posts created one after the other from titles of one base slug get the
\* slugs base, base-1, ..., base-(N-1) in creation order; "Hello World!" created
\* twice gives the second post hello-world-1.
C3_SequentialSuffixes ==
  /\ (\A i \in Stored : slugify(blogs[i].title) = slugify(blogs[1].title))
       => \A i \in Stored :
            blogs[i].slug = IF i = 1 THEN slugify(blogs[1].title)
                            ELSE slugify(blogs[1].title) \o <<"-">> \o NumStr(i - 1)
  /\ ({1, 2} \subseteq Stored /\ blogs[1].title = TitleHello /\ blogs[2].title = TitleHello)
       => blogs[2].slug = SlugHello \o <<"-", "1">>

C3_Witness ==
  /\ Stored = {1, 2, 3}
  /\ \A i \in Stored : blogs[i].title \in {TitleHello, TitleHelloLower}
  /\ blogs[2].title = TitleHello /\ blogs[1].title = TitleHello
  /\ blogs[3].slug = SlugHello \o <<"-", "2">>

\* C4: a save of an existing post that leaves its title as it was leaves its slug
\* as it was, whatever other posts of the same base slug were created or deleted.
C4_SlugKept ==
  [][\A i \in Stored :
       (i \in DOMAIN blogs' /\ blogs'[i].title = blogs[i].title)
         => blogs'[i].slug = blogs[i].slug]_vars

\* the post holding hi-1 has just been saved by a like, comment, read or update,
\* after the post that held the base slug was deleted
C4_Witness ==
  /\ last.op \in {"like", "comment", "read", "update"} /\ last.code \in {200, 201}
  /\ last.id \in Stored /\ blogs[last.id].slug = SlugHi \o <<"-", "1">>
  /\ \A j \in Stored : blogs[j].slug # SlugHi

\* C5: after every save that changed the content (a creation included),
\* readingTime is the least integer not below wordCount / 200; a save that
\* changes the title and not the content leaves readingTime as it was.
\* (Holds in SpecLife, where requests do not overlap; in SpecRace a save whose
\* hook computes the reading time the document was loaded with writes the content
\* without it, over the reading time another save has stored meanwhile.)
C5_ReadingTime ==
  [][\A i \in DOMAIN blogs' :
       /\ (i \notin Stored \/ blogs'[i].content # blogs[i].content)
            => /\ blogs'[i].readingTime * WordsPerMinute >= blogs'[i].content.gaps + 1
               /\ (blogs'[i].readingTime - 1) * WordsPerMinute < blogs'[i].content.gaps + 1
       /\ (i \in Stored /\ blogs'[i].content = blogs[i].content
             /\ blogs'[i].title # blogs[i].title)
            => blogs'[i].readingTime = blogs[i].readingTime]_vars

\* C6: publishedAt is set by the first save that makes the post published and by
\* no save that does not, and once set it keeps its value in every later save.
\* (Holds in SpecLife, where requests do not overlap; in SpecRace two overlapping
\* publishing updates both load the post without a date and both write one.)
C6_PublishedOnce ==
  [][\A i \in DOMAIN blogs' :
       LET was == IF i \in Stored THEN blogs[i].publishedAt ELSE NoDate IN
       /\ was # NoDate => blogs'[i].publishedAt = was
       /\ (was = NoDate /\ blogs'[i].status = "published")
            => (blogs'[i].publishedAt # NoDate /\ blogs'[i].publishedAt <= now)
       /\ (was = NoDate /\ blogs'[i].publishedAt # NoDate)
            => blogs'[i].status = "published"]_vars

\* the likes before and after a like toggle that ran from its read to its write
\* with no other handler in flight, and that the step at hand completes
LikeDone(r) ==
  /\ req[r].pc = "write" /\ req[r].op = "like" /\ req[r].alone
  /\ req'[r].pc = "idle" /\ last'.code = 200

\* C7: two like toggles of one user on one post, one right after the other,
\* restore the user's membership in likes and the number of likes.
C7_DoubleToggle ==
  [][\A r \in Slots :
       (/\ LikeDone(r)
        /\ last.op = "like" /\ last.code = 200 /\ last.alone
        /\ last.user = req[r].user /\ last.id = req[r].id)
         => /\ Member(req[r].user, blogs'[req[r].id].likes) = Member(req[r].user, last.before)
            /\ Len(blogs'[req[r].id].likes) = Len(last.before)]_vars

\* C8: a like toggle removes the acting user from likes if present and adds the
\* user if absent, changes no other user's membership, and answers with the
\* size of likes and the user's membership after the call.
C8_SingleToggle ==
  [][\A r \in Slots :
       LikeDone(r) =>
         LET u == req[r].user
             before == blogs[req[r].id].likes
             after == blogs'[req[r].id].likes
         IN /\ Member(u, after) = ~Member(u, before)
            /\ \A v \in UserIds \ {u} : Member(v, after) = Member(v, before)
            /\ last'.likeCount = Len(after)
            /\ last'.isLiked = Member(u, after)]_vars

\* C9: in every reachable state, after overlapping like toggles of one user
\* included, a post's likes holds each user id at most once.
C9_LikesDistinct ==
  \A i \in Stored : \A a, b \in 1..Len(blogs[i].likes) :
    a # b => blogs[i].likes[a] # blogs[i].likes[b]

TokenValid(token) ==
  /\ token.kind = "jwt" /\ token.sig = "good" /\ ~token.expired
  /\ token.userId \in UserIds /\ User[token.userId].isActive

\* C10: behind authenticateToken a handler runs, as the token's user, exactly
\* for a token that is present, rightly signed, unexpired and of an existing
\* active user; no token is answered 401 'Access token required', a malformed or
\* wrongly signed one 401 'Invalid token', an expired one 401 'Token expired',
\* one of an absent or deactivated user 401.
C10_RequiredAuth ==
  /\ \A r \in Slots :
       (req[r].pc # "idle" /\ req[r].op # "read")
         => (TokenValid(req[r].token) /\ req[r].user = req[r].token.userId)
  /\ (last.op \notin {"none", "read"} /\ last.code # 401)
       => (TokenValid(last.token) /\ last.user = last.token.userId)
  /\ (last.op \notin {"none", "read"} /\ last.code = 401) =>
       /\ ~TokenValid(last.token)
       /\ last.token.kind = "none" <=> last.message = "Access token required"
       /\ (last.token.kind = "malformed" \/ (last.token.kind = "jwt" /\ last.token.sig # "good"))
            <=> last.message = "Invalid token"
       /\ (last.token.kind = "jwt" /\ last.token.sig = "good" /\ last.token.expired)
            <=> last.message = "Token expired"
       /\ (last.token.kind = "jwt" /\ last.token.sig = "good" /\ ~last.token.expired)
            <=> last.message = "Invalid token or user not found"

\* an expired token has just been refused while a handler runs as an active user
C10_Witness ==
  /\ last.code = 401 /\ last.message = "Token expired"
  /\ \E r \in Slots : req[r].pc # "idle" /\ req[r].op = "update" /\ req[r].user = "u2"

\* C11: behind optionalAuth the handler always runs and no request is refused for
\* its token: the identity is the token's user when the token is present, rightly
\* signed, unexpired and of an existing active user, and anonymous otherwise.
C11_OptionalAuth ==
  /\ \A tk \in AllTokens : optionalAuth(tk).next
  /\ \A r \in Slots :
       (req[r].pc # "idle" /\ req[r].op = "read")
         => req[r].user = IF TokenValid(req[r].token) THEN req[r].token.userId ELSE NoUser
  /\ last.op = "read"
       => /\ last.code \in {200, 404, 500}
          /\ last.code = 404 => last.message = "Blog not found"
          /\ last.code = 200
               => last.user = IF TokenValid(last.token) THEN last.token.userId ELSE NoUser

\* the post has been served to the bearer of a deactivated user's token, as anonymous
C11_Witness ==
  /\ last.op = "read" /\ last.code = 200
  /\ last.token = TokenOf("u3") /\ last.user = NoUser

\* C12: the ownership gate lets a request about a post go on only for a resolved
\* identity that is an admin or is the post's author; it answers every other
\* resolved identity 403 and a request without identity with a refusal.
C12_OwnershipGate ==
  (last.op = "gate" /\ last.id \in Stored) =>
    LET owns == blogs[last.id].author = last.user IN
    /\ last.next => (last.user # NoUser /\ (User[last.user].role = "admin" \/ owns))
    /\ (last.user # NoUser /\ ~last.next) => last.code = 403
    /\ last.user = NoUser => ~last.next /\ last.code = 401

C14_AuthorKept ==
  [][\A i \in DOMAIN blogs' :
       IF i \in Stored THEN blogs'[i].author = blogs[i].author
       ELSE /\ last'.op = "create" /\ last'.code = 201
            /\ blogs'[i].author = last'.user /\ last'.user = last'.token.userId]_vars

\* u1 has just saved an update of its post (the bodies sent name u1 and u2 as author)
C14_Witness ==
  /\ last.op = "update" /\ last.code = 200 /\ last.user = "u1"
  /\ last.id \in Stored /\ blogs[last.id].author = "u1" /\ blogs[last.id].title = TitleLower

C16_ClientSession ==
  [][/\ \A c \in Calls :
          (client.calls[c].open /\ ~client'.calls[c].open /\ client'.status = 401)
            => (client'.token = NoToken /\ client'.user = NoUser /\ client'.href = "/login")
     /\ \A c \in Calls :
          (~client.calls[c].open /\ client'.calls[c].open)
            => /\ client'.calls[c].authorization = client.token
               /\ (client'.calls[c].authorization # NoToken) <=> (client.token # NoToken)
     ]_vars

\* a call has been answered 401 and the session is gone, while another call sent
\* with that session's token is still in flight
C16_Witness ==
  /\ client.status = 401 /\ client.token = NoToken /\ client.user = NoUser
  /\ client.href = "/login"
  /\ \E c \in Calls : client.calls[c].open /\ client.calls[c].authorization = TokenOf("u1")

\* C17: a creation whose write the unique index refuses, after it and an
\* overlapping creation of the same title both passed the slug check, is retried
\* with a new slug: no creation that reached its write ends without its post stored.
C17_LoserRetried ==
  [][\A r \in Slots :
       (req[r].op = "create" /\ req[r].pc = "write" /\ req'[r].pc = "idle")
         => (last'.code = 201 /\ req[r].id \in DOMAIN blogs')]_vars

\* a like toggle or a comment addition completes with a success response
ShareDone(r) ==
  /\ req[r].pc = "write" /\ req[r].op \in {"like", "comment"}
  /\ req'[r].pc = "idle" /\ last'.code \in {200, 201}

\* C18 (as stated): like toggle and comment addition write the post whole, last
\* writer wins: after a successful save the stored likes and comments are the
\* saving handler's copies, so that of two overlapping requests that both read
\* before either wrote, the first one's change is lost.
C18_LastWriteWins ==
  [][\A r \in Slots :
       ShareDone(r) => /\ blogs'[req[r].id].likes = req[r].doc.likes
                       /\ blogs'[req[r].id].comments = req[r].doc.comments]_vars

\* C18 (amended): no update is lost.  A like toggle that succeeds changes the
\* membership of no other user in the stored likes and leaves the stored comments,
\* and a comment addition that succeeds appends its comment to the stored comments
\* and leaves the stored likes, whatever other requests wrote since it read the post.
C18_NoLostUpdate ==
  [][\A r \in Slots :
       ShareDone(r) =>
         LET id == req[r].id
             mine == req[r].doc.comments[Len(req[r].doc.comments)]
         IN /\ \A v \in UserIds \ {req[r].user} :
                 Member(v, blogs'[id].likes) = Member(v, blogs[id].likes)
            /\ req[r].op = "like" => blogs'[id].comments = blogs[id].comments
            /\ req[r].op = "comment"
                 => /\ blogs'[id].likes = blogs[id].likes
                    /\ blogs'[id].comments = Append(blogs[id].comments, mine)]_vars

\* the second of two overlapping comment additions has just succeeded and the
\* comments of both users are stored, next to the likes of both users
C18_Witness ==
  /\ last.op = "comment" /\ last.code = 201 /\ ~last.alone /\ last.id \in Stored
  /\ Len(blogs[last.id].comments) = 2
  /\ blogs[last.id].comments[1].author # blogs[last.id].comments[2].author
  /\ Len(blogs[last.id].likes) = 2
  /\ Member("u1", blogs[last.id].likes) /\ Member("u2", blogs[last.id].likes)

\* a creation completes with its post stored
CreateDone(r) ==
  /\ req[r].pc = "write" /\ req[r].op = "create"
  /\ req'[r].pc = "idle" /\ last'.code = 201

ReadDone(r) ==
  /\ req[r].pc = "write" /\ req[r].op = "read"
  /\ req'[r].pc = "idle" /\ last'.code = 200

C21_ClientErrors ==
  last.op \in {"create", "update", "like", "comment"}
    => last.code \in {200, 201, 400, 404}

\* C22: a fault of the store while a route handler runs (the unique index, the
\* version check or a missing document refusing the write) is answered by that
\* handler, once, with 500 and the route's fixed message; the handler ends there,
\* nothing is written and nothing is sent but that message.
C22_FaultsCaught ==
  [][\A r \in Slots :
       (req[r].pc = "write" /\ req'[r].pc = "idle" /\ writeFails(blogs, req[r]))
         => /\ last'.code = 500 /\ last'.op = req[r].op
            /\ last'.message \in {"Server error creating blog", "Server error updating blog",
                                  "Server error processing like"}
            /\ req'[r] = Idle
            /\ blogs' = blogs]_vars

\* an update has been answered 500 because its post was deleted while it ran
C22_Witness ==
  /\ last.op = "update" /\ last.code = 500 /\ last.message = "Server error updating blog"
  /\ last.id \notin Stored /\ InFlight = {}

\* C23: an update (well-formed, of a stored post) goes through when the caller is
\* the post's author and also when the caller is an admin who is not the author;
\* a caller who is neither is refused.
C23_UpdateRights ==
  (last.op = "update" /\ last.user # NoUser /\ last.id \in Stored) =>
    LET entitled == blogs[last.id].author = last.user \/ User[last.user].role = "admin"
    IN last.code = 200 <=> entitled

\* C24: a delete by the post's author removes the document: afterwards no update,
\* like, comment or read finds it (404), and a post created later can get its
\* slug; a delete by any other authenticated user is answered 404 and leaves the
\* post stored as it was.  (One request at a time.)
C24_HardDelete ==
  [][/\ \A r \in Slots :
          (req[r].pc = "delete" /\ req'[r].pc = "idle")
            => /\ blogs[req[r].id].author = req[r].user
               /\ last'.code = 200
               /\ blogs' = [i \in Stored \ {req[r].id} |-> blogs[i]]
     /\ (last'.op \in {"update", "like", "comment"} /\ last'.id \notin DOMAIN blogs')
          => last'.code = 404
     /\ \A r \in Slots :
          (req'[r].pc # "idle" /\ req'[r].op = "read") => req'[r].id \in DOMAIN blogs'
     /\ \A r \in Slots :
          (CreateDone(r) /\ \A j \in Stored : blogs[j].slug # slugify(blogs'[req[r].id].title))
            => blogs'[req[r].id].slug = slugify(blogs'[req[r].id].title)
     /\ (last' # last /\ last'.op = "delete" /\ last'.user # NoUser
          /\ last'.id \in Stored /\ blogs[last'.id].author # last'.user)
          => (last'.code = 404 /\ blogs' = blogs)
     ]_vars

\* the post that held hi was deleted by its author, the post created next holds
\* hi, and a like of the deleted post has just been answered 404
C24_Witness ==
  /\ Stored = {2} /\ blogs[2].slug = SlugHi
  /\ last.op = "like" /\ last.id = 1 /\ last.code = 404

\* C25: with n posts stored and no other writer, the slug-collision loop makes
\* at most n+1 existence checks (the counter, which starts at 1 and grows by one
\* per collision, equals the number of checks when the loop ends), ends with a
\* slug no other post holds, and while it loops nothing is written and no
\* response is sent.
C25_BoundedLoop ==
  [][\A r \in Slots :
       (req[r].pc = "check" /\ req'[r] # req[r])
         => /\ blogs' = blogs /\ nextId' = nextId /\ last' = last
            /\ req'[r].op = req[r].op /\ req'[r].baseSlug = req[r].baseSlug
            /\ req'[r].counter <= Cardinality(Stored) + 1
            /\ req'[r].pc \in {"check", "write"}
            /\ req'[r].pc = "check" => req'[r].counter = req[r].counter + 1
            /\ req'[r].pc = "write"
                 => /\ req'[r].counter = req[r].counter
                    /\ ~existingBlog(blogs, req[r].id, req'[r].doc.slug)
     ]_vars

\* two posts hold hello and hello-1, and the loop of a third creation has ended
\* after three checks with hello-2
C25_Witness ==
  /\ Cardinality(Stored) = 2
  /\ req[1].pc = "write" /\ req[1].op = "create"
  /\ req[1].counter = 3 /\ req[1].doc.slug = nextSlug(SlugHello, 2)

\* C26: every invocation of authenticateToken, optionalAuth, requireAdmin or the
\* ownership gate either calls next() and sends no response, or sends one
\* response (401, 403 or 500) and does not call next(); never both, never neither.
C26_OneOutcome ==
  last.op \in Middlewares \cup {"gate"}
    => \/ last.next /\ last.code = 0
       \/ ~last.next /\ last.code \in {401, 403, 500}

\* requireAdmin has refused an authenticated user who is not an admin
C26_Witness ==
  /\ last.op = "requireAdmin" /\ last.user = "u1"
  /\ last.code = 403 /\ ~last.next

\* C27: every stored post whose status is published has publishedAt set.
C27_PublishedStamped ==
  \A i \in Stored : blogs[i].status = "published" => blogs[i].publishedAt # NoDate

\* a post was created as a draft, and the save() of the update that publishes it
\* has run its hooks and is about to write status and publishedAt
C27_Witness ==
  /\ last.op = "create" /\ last.code = 201
  /\ Stored = {1} /\ blogs[1].status = "draft" /\ blogs[1].publishedAt = NoDate
  /\ req[1].pc = "write" /\ req[1].op = "update"
  /\ req[1].doc.status = "published" /\ req[1].doc.publishedAt = now
  /\ {"status", "publishedAt"} \subseteq req[1].mod

\* C28: a post that is not published is returned neither by GET /blogs nor by
\* GET /blogs/:slug, whoever asks, and its view counter does not change while it
\* is not published; once demoted it is not returned by the requests that follow.
C28_DraftsHidden ==
  [][/\ \A r \in Slots :
          (req[r].pc = "idle" /\ req'[r].pc # "idle" /\ req'[r].op = "list")
            => \A k \in 1..Len(req'[r].found) :
                 /\ req'[r].found[k] \in Stored
                 /\ blogs[req'[r].found[k]].status = "published"
     /\ \A r \in Slots :
          (req[r].pc = "count" /\ req'[r].pc = "idle") => last'.blogs = req[r].found
     /\ \A r \in Slots :
          (req[r].pc = "idle" /\ req'[r].pc # "idle" /\ req'[r].op = "read")
            => blogs[req'[r].id].status = "published"
     /\ \A i \in Stored :
          (blogs[i].status # "published" /\ i \in DOMAIN blogs')
            => blogs'[i].views = blogs[i].views
     ]_vars

C30_FailureLeavesStore ==
  [][/\ (last' # last /\ last'.op \in {"create", "update"} /\ last'.code \notin {200, 201})
          => blogs' = blogs
     /\ \A r \in Slots :
          (req[r].op \in {"create", "update"} /\ req[r].pc = "write" /\ req'[r].pc = "idle"
           /\ last'.code \notin {200, 201})
            => blogs' = blogs
     /\ \A r \in Slots :
          (req[r].pc = "idle" /\ req'[r].pc # "idle") => blogs' = blogs
     /\ \A r \in Slots :
          (req[r].pc = "check" /\ req'[r].pc \in {"check", "write"}
           /\ <<req'[r].pc, req'[r].counter>> # <<req[r].pc, req[r].counter>>)
            => blogs' = blogs
     ]_vars

\* of two overlapping creations with the same title the second was refused by
\* the unique index: the first post is stored, the second is not
C30_Witness ==
  /\ last.op = "create" /\ last.code = 500 /\ last.message = "Server error creating blog"
  /\ last.id = 2 /\ Stored = {1} /\ blogs[1].slug = SlugHi
  /\ InFlight = {}
====
